---- MODULE Spec2Model ----
(***************************************************************************)
(* Model of the invoice core of hfarazul/Bill_automation:                  *)
(*   utils/tax_calculator.py   calculate_tax                               *)
(*   utils/pdf_extractor.py    normalize_state_name                        *)
(* Python floats are IEEE-754 binary64 values; they are modelled exactly,  *)
(* with mantissas held as multi-precision naturals, so that round(x, 2),   *)
(* x * 0.09 and x + y give the value CPython gives.                        *)
(***************************************************************************)
EXTENDS Integers, Sequences, FiniteSets, TLC

(***************************************************************************)
(* Multi-precision naturals: little-endian sequences of limbs in base      *)
(* LimbBase, without high zero limbs (zero is the empty sequence).         *)
(***************************************************************************)
LimbBits == 15
LimbBase == 32768

RECURSIVE Pow10(_)
Pow10(n) == IF n <= 0 THEN 1 ELSE 10 * Pow10(n - 1)

RECURSIVE Pow2(_)
Pow2(n) == IF n <= 0 THEN 1 ELSE 2 * Pow2(n - 1)

RECURSIVE BNorm(_)
BNorm(a) == IF a = <<>> THEN <<>>
            ELSE IF a[Len(a)] = 0 THEN BNorm(SubSeq(a, 1, Len(a) - 1)) ELSE a

RECURSIVE BFromInt(_)
BFromInt(n) == IF n = 0 THEN <<>> ELSE <<n % LimbBase>> \o BFromInt(n \div LimbBase)

Limb(a, i) == IF i >= 1 /\ i <= Len(a) THEN a[i] ELSE 0

RECURSIVE BAddC(_, _, _, _)
BAddC(a, b, i, c) ==
    IF i > Len(a) /\ i > Len(b)
    THEN (IF c = 0 THEN <<>> ELSE <<c>>)
    ELSE LET t == Limb(a, i) + Limb(b, i) + c
         IN  <<t % LimbBase>> \o BAddC(a, b, i + 1, t \div LimbBase)

BAdd(a, b) == BAddC(a, b, 1, 0)

\* a - b for a >= b
RECURSIVE BSubC(_, _, _, _)
BSubC(a, b, i, c) ==
    IF i > Len(a) THEN <<>>
    ELSE LET t == Limb(a, i) - Limb(b, i) - c
         IN  IF t < 0 THEN <<t + LimbBase>> \o BSubC(a, b, i + 1, 1)
                      ELSE <<t>> \o BSubC(a, b, i + 1, 0)

BSub(a, b) == BNorm(BSubC(a, b, 1, 0))

\* -1, 0, 1 as a < b, a = b, a > b (both normalised)
RECURSIVE BCmpAt(_, _, _)
BCmpAt(a, b, i) ==
    IF i = 0 THEN 0
    ELSE IF a[i] < b[i] THEN -1
    ELSE IF a[i] > b[i] THEN 1
    ELSE BCmpAt(a, b, i - 1)

BCmp(a, b) == IF Len(a) < Len(b) THEN -1
              ELSE IF Len(a) > Len(b) THEN 1
              ELSE BCmpAt(a, b, Len(a))

\* a * k for 0 <= k < LimbBase
RECURSIVE BMulSmallC(_, _, _, _)
BMulSmallC(a, k, i, c) ==
    IF i > Len(a)
    THEN (IF c = 0 THEN <<>> ELSE <<c>>)
    ELSE LET t == a[i] * k + c
         IN  <<t % LimbBase>> \o BMulSmallC(a, k, i + 1, t \div LimbBase)

BMulSmall(a, k) == IF k = 0 THEN <<>> ELSE BMulSmallC(a, k, 1, 0)

\* a * LimbBase^n
RECURSIVE BShlLimbs(_, _)
BShlLimbs(a, n) == IF a = <<>> \/ n = 0 THEN a ELSE <<0>> \o BShlLimbs(a, n - 1)

RECURSIVE BMulAt(_, _, _)
BMulAt(a, b, j) ==
    IF j > Len(b) THEN <<>>
    ELSE BAdd(BShlLimbs(BMulSmall(a, b[j]), j - 1), BMulAt(a, b, j + 1))

BMul(a, b) == BNorm(BMulAt(a, b, 1))

\* floor(a / d) and a mod d for 0 < d < LimbBase; the scan runs from the high limb
RECURSIVE BDivSmallAt(_, _, _, _)
BDivSmallAt(a, d, i, r) ==
    IF i = 0 THEN [q |-> <<>>, r |-> r]
    ELSE LET t    == r * LimbBase + a[i]
             rest == BDivSmallAt(a, d, i - 1, t % d)
         IN  [q |-> rest.q \o <<t \div d>>, r |-> rest.r]

BDivSmall(a, d) == LET x == BDivSmallAt(a, d, Len(a), 0)
                   IN  [q |-> BNorm(x.q), r |-> x.r]

\* a * 2^n
BShl(a, n) == BShlLimbs(BMulSmall(a, Pow2(n % LimbBits)), n \div LimbBits)

\* floor(a / 2^n)
BShr(a, n) ==
    LET k == n \div LimbBits
    IN  IF k >= Len(a) THEN <<>>
        ELSE BDivSmall(SubSeq(a, k + 1, Len(a)), Pow2(n % LimbBits)).q

RECURSIVE BitLenInt(_)
BitLenInt(n) == IF n = 0 THEN 0 ELSE 1 + BitLenInt(n \div 2)

BBitLen(a) == IF a = <<>> THEN 0 ELSE (Len(a) - 1) * LimbBits + BitLenInt(a[Len(a)])

BIsOdd(a) == a # <<>> /\ a[1] % 2 = 1

(***************************************************************************)
(* binary64 values.  A finite value is (-1)^neg * m * 2^e with m = <<>>    *)
(* (zero, e = 0) or 2^52 <= m < 2^53.  The inputs of the model stay far    *)
(* from the subnormal range, which is therefore not represented.           *)
(***************************************************************************)
MantBits == 53
MaxExp   == 971

Zero    == [cls |-> "finite", neg |-> FALSE, m |-> <<>>, e |-> 0]
NegZero == [cls |-> "finite", neg |-> TRUE,  m |-> <<>>, e |-> 0]
Inf     == [cls |-> "inf",    neg |-> FALSE, m |-> <<>>, e |-> 0]
NegInf  == [cls |-> "inf",    neg |-> TRUE,  m |-> <<>>, e |-> 0]
NaN     == [cls |-> "nan",    neg |-> FALSE, m |-> <<>>, e |-> 0]

FIsZero(x) == x.cls = "finite" /\ x.m = <<>>

\* the quotient m0 of q by 2^sh moved to the nearest integer, ties to even; c
\* compares the remainder with a half, and a sticky remainder breaks a tie upwards
Nearest(m0, c, sticky) ==
    IF c = 1 \/ (c = 0 /\ (sticky \/ BIsOdd(m0))) THEN BAdd(m0, <<1>>) ELSE m0

RoundQuotient(q, sh, m0, sticky) ==
    Nearest(m0, BCmp(BSub(q, BShl(m0, sh)), BShl(<<1>>, sh - 1)), sticky)

\* (q + f) / 2^sh rounded to the nearest integer, ties to even (sh > 0)
RoundHalfEven(q, sh, sticky) == RoundQuotient(q, sh, BShr(q, sh), sticky)

\* the float m * 2^e of a mantissa of at most MantBits + 1 bits
Normalised(neg, m, e) ==
    IF e > MaxExp
    THEN [cls |-> "inf", neg |-> neg, m |-> <<>>, e |-> 0]
    ELSE [cls |-> "finite", neg |-> neg, m |-> m, e |-> e]

Carried(neg, m1, e) ==
    IF BBitLen(m1) > MantBits THEN Normalised(neg, BShr(m1, 1), e + 1)
    ELSE Normalised(neg, m1, e)

FRoundBits(neg, q, sticky, exp, L) ==
    IF L <= MantBits
    THEN [cls |-> "finite", neg |-> neg, m |-> BShl(q, MantBits - L), e |-> exp - (MantBits - L)]
    ELSE Carried(neg, RoundHalfEven(q, L - MantBits, sticky), exp + (L - MantBits))

\* Round (q + f) * 2^exp to nearest, ties to even, where q > 0 is an integer and
\* 0 <= f < 1 with f > 0 iff sticky.
FRound(neg, q, sticky, exp) == FRoundBits(neg, q, sticky, exp, BBitLen(q))

\* The binary64 nearest to n / d, for a natural n and 0 < d < LimbBase
\* (what float("n/d as a decimal literal") and strtod give).
FromRatio(neg, n, d) ==
    IF n = <<>> THEN (IF neg THEN NegZero ELSE Zero)
    ELSE LET x == BDivSmall(BShl(n, 75), d)
         IN  FRound(neg, x.q, x.r # 0, -75)

\* The float written as the decimal literal n / 10^k, n < 2^31, k <= 4
FromDec(n, k) == FromRatio(n < 0, BFromInt(IF n < 0 THEN -n ELSE n), Pow10(k))

\* x * y on floats
FMul(x, y) ==
    IF x.cls = "nan" \/ y.cls = "nan" THEN NaN
    ELSE IF x.cls = "inf" \/ y.cls = "inf"
    THEN (IF FIsZero(x) \/ FIsZero(y) THEN NaN
          ELSE [cls |-> "inf", neg |-> (x.neg # y.neg), m |-> <<>>, e |-> 0])
    ELSE IF FIsZero(x) \/ FIsZero(y)
    THEN [cls |-> "finite", neg |-> (x.neg # y.neg), m |-> <<>>, e |-> 0]
    ELSE FRound(x.neg # y.neg, BMul(x.m, y.m), FALSE, x.e + y.e)

\* x + y for finite non-zero x and y whose mantissas mx, my are aligned at
\* exponent e0; c compares mx with my
FAddAligned(x, y, mx, my, c, e0) ==
    IF x.neg # y.neg /\ c = 0 THEN Zero
    ELSE FRound(IF x.neg = y.neg \/ c = 1 THEN x.neg ELSE y.neg,
                IF x.neg = y.neg THEN BAdd(mx, my)
                ELSE IF c = 1 THEN BSub(mx, my) ELSE BSub(my, mx),
                FALSE, e0)

FAddShifted(x, y, mx, my, e0) == FAddAligned(x, y, mx, my, BCmp(mx, my), e0)

FAddAt(x, y, e0) == FAddShifted(x, y, BShl(x.m, x.e - e0), BShl(y.m, y.e - e0), e0)

\* x + y on floats
FAdd(x, y) ==
    IF x.cls = "nan" \/ y.cls = "nan" THEN NaN
    ELSE IF x.cls = "inf"
    THEN (IF y.cls = "inf" /\ y.neg # x.neg THEN NaN ELSE x)
    ELSE IF y.cls = "inf" THEN y
    ELSE IF FIsZero(x) /\ FIsZero(y) THEN (IF x.neg /\ y.neg THEN NegZero ELSE Zero)
    ELSE IF FIsZero(x) THEN y
    ELSE IF FIsZero(y) THEN x
    ELSE FAddAt(x, y, IF x.e < y.e THEN x.e ELSE y.e)

\* x == y on floats (nan differs from everything, the two zeros are equal)
FEq(x, y) ==
    /\ x.cls # "nan" /\ y.cls # "nan"
    /\ \/ FIsZero(x) /\ FIsZero(y)
       \/ x = y

\* x < 0
FNegative(x) == x.cls # "nan" /\ x.neg /\ ~FIsZero(x)

\* |x| * scale rounded to the nearest natural, ties to even (x finite, scale < LimbBase)
RoundScaled(x, scale) ==
    IF x.e >= 0 THEN BShl(BMulSmall(x.m, scale), x.e)
    ELSE RoundHalfEven(BMulSmall(x.m, scale), -x.e, FALSE)

\* round(x, 2) of a float: CPython rounds the exact binary value to 2 decimals
\* (ties to even) and converts that decimal back to the nearest float;
\* infinities and nans round to themselves.
round2(x) ==
    IF x.cls # "finite" THEN x
    ELSE IF FIsZero(x) THEN x
    ELSE FromRatio(x.neg, RoundScaled(x, 100), 100)

(***************************************************************************)
(* Python str values are sequences of one-character strings; None is the   *)
(* one sequence whose element is not a character.                          *)
(***************************************************************************)
None == <<"None">>

UpperChars == <<"A", "B", "C", "D", "E", "F", "G", "H", "I", "J", "K", "L", "M",
                "N", "O", "P", "Q", "R", "S", "T", "U", "V", "W", "X", "Y", "Z">>
LowerChars == <<"a", "b", "c", "d", "e", "f", "g", "h", "i", "j", "k", "l", "m",
                "n", "o", "p", "q", "r", "s", "t", "u", "v", "w", "x", "y", "z">>
Digits     == {"0", "1", "2", "3", "4", "5", "6", "7", "8", "9"}
Whitespace == {" ", "\t", "\n"}

IsUpper(c) == \E i \in 1..26 : UpperChars[i] = c
IsLower(c) == \E i \in 1..26 : LowerChars[i] = c

LowerChar(c) == IF IsUpper(c) THEN LowerChars[CHOOSE i \in 1..26 : UpperChars[i] = c] ELSE c
UpperChar(c) == IF IsLower(c) THEN UpperChars[CHOOSE i \in 1..26 : LowerChars[i] = c] ELSE c

\* str.lower(), str.upper()
lower(s) == [i \in 1..Len(s) |-> LowerChar(s[i])]
upper(s) == [i \in 1..Len(s) |-> UpperChar(s[i])]

RECURSIVE lstrip(_)
lstrip(s) == IF s # <<>> /\ s[1] \in Whitespace THEN lstrip(Tail(s)) ELSE s

RECURSIVE rstrip(_)
rstrip(s) == IF s # <<>> /\ s[Len(s)] \in Whitespace THEN rstrip(SubSeq(s, 1, Len(s) - 1)) ELSE s

\* a strip() that forgets the trailing whitespace
strip_leading_only(s) == lstrip(s)

\* str.strip()
strip(s) == rstrip(lstrip(s))

(***************************************************************************)
(* utils/tax_calculator.py                                                 *)
(***************************************************************************)
CGST_RATE == FromDec(9, 2)

\* the inter-state rate taken for the half rate
IGST_RATE_half == FromDec(9, 2)

IGST_RATE == FromDec(18, 2)

Raised(exc) == [exc |-> exc]

TaxDict(tax_type, cgst, sgst, igst, total_tax, total_after_tax) ==
    [exc |-> "none", tax_type |-> tax_type, cgst |-> cgst, sgst |-> sgst, igst |-> igst,
     total_tax |-> total_tax, total_after_tax |-> total_after_tax]

\* the dict with 'total_after_tax': round(subtotal + total_tax, 2)
TaxResult(tax_type, sub, cgst, sgst, igst, total_tax) ==
    TaxDict(tax_type, cgst, sgst, igst, total_tax, round2(FAdd(sub, total_tax)))

\* the intra-state dict: total_tax = cgst + sgst, 'igst': 0
SgstResult(sub, cgst, sgst) == TaxResult("SGST", sub, cgst, sgst, Zero, FAdd(cgst, sgst))

\* the inter-state dict: 'cgst': 0, 'sgst': 0, 'total_tax': igst
IgstResult(sub, igst) == TaxResult("IGST", sub, Zero, Zero, igst, igst)

\* calculate_tax rounding the 18% once instead of each 9% component
calculate_tax_round_once(supplier, customer, sub) ==
    IF supplier = None \/ customer = None THEN Raised("AttributeError")
    ELSE IF lower(strip(supplier)) = lower(strip(customer))
    THEN LET total_tax == round2(FMul(sub, IGST_RATE))
         IN  TaxDict("SGST", round2(FMul(sub, CGST_RATE)), round2(FMul(sub, CGST_RATE)), Zero,
                     total_tax, round2(FAdd(sub, total_tax)))
    ELSE LET igst == round2(FMul(sub, IGST_RATE))
         IN  TaxDict("IGST", Zero, Zero, igst, igst, round2(FAdd(sub, igst)))

\* calculate_tax filling igst in the intra-state branch as well
calculate_tax_igst_always(supplier, customer, sub) ==
    IF supplier = None \/ customer = None THEN Raised("AttributeError")
    ELSE LET igst == round2(FMul(sub, IGST_RATE))
         IN  IF lower(strip(supplier)) = lower(strip(customer))
             THEN LET cgst == round2(FMul(sub, CGST_RATE))
                  IN  TaxDict("SGST", cgst, cgst, igst, FAdd(cgst, cgst),
                              round2(FAdd(sub, FAdd(cgst, cgst))))
             ELSE TaxDict("IGST", Zero, Zero, igst, igst, round2(FAdd(sub, igst)))

\* calculate_tax returning subtotal + total_tax without the final round(, 2)
calculate_tax_unrounded_total(supplier, customer, sub) ==
    IF supplier = None \/ customer = None THEN Raised("AttributeError")
    ELSE IF lower(strip(supplier)) = lower(strip(customer))
    THEN LET cgst == round2(FMul(sub, CGST_RATE))
         IN  TaxDict("SGST", cgst, cgst, Zero, FAdd(cgst, cgst), FAdd(sub, FAdd(cgst, cgst)))
    ELSE LET igst == round2(FMul(sub, IGST_RATE))
         IN  TaxDict("IGST", Zero, Zero, igst, igst, FAdd(sub, igst))

\* calculate_tax(supplier_state, customer_state, subtotal): the returned dict, with
\* exc = "none", or the exception that leaves the function.  The int 0 of the
\* unused components is the float zero it compares equal to.
calculate_tax(supplier, customer, sub) ==
    IF supplier = None \/ customer = None THEN Raised("AttributeError")
    ELSE IF lower(strip(supplier)) = lower(strip(customer))
    THEN SgstResult(sub, round2(FMul(sub, CGST_RATE)), round2(FMul(sub, CGST_RATE)))
    ELSE IgstResult(sub, round2(FMul(sub, IGST_RATE)))

(***************************************************************************)
(* utils/pdf_extractor.py: normalize_state_name                            *)
(***************************************************************************)
\* the abbreviations dict, in source order
abbreviations == <<
    <<<<"U", "P">>, <<"U", "t", "t", "a", "r", " ", "P", "r", "a", "d", "e", "s", "h">>>>,
    <<<<"D", "L">>, <<"D", "e", "l", "h", "i">>>>,
    <<<<"H", "R">>, <<"H", "a", "r", "y", "a", "n", "a">>>>,
    <<<<"P", "B">>, <<"P", "u", "n", "j", "a", "b">>>>,
    <<<<"R", "J">>, <<"R", "a", "j", "a", "s", "t", "h", "a", "n">>>>,
    <<<<"M", "H">>, <<"M", "a", "h", "a", "r", "a", "s", "h", "t", "r", "a">>>>,
    <<<<"G", "J">>, <<"G", "u", "j", "a", "r", "a", "t">>>>,
    <<<<"K", "A">>, <<"K", "a", "r", "n", "a", "t", "a", "k", "a">>>>,
    <<<<"T", "N">>, <<"T", "a", "m", "i", "l", " ", "N", "a", "d", "u">>>>,
    <<<<"W", "B">>, <<"W", "e", "s", "t", " ", "B", "e", "n", "g", "a", "l">>>>,
    <<<<"M", "P">>, <<"M", "a", "d", "h", "y", "a", " ", "P", "r", "a", "d", "e", "s", "h">>>>,
    <<<<"A", "P">>, <<"A", "n", "d", "h", "r", "a", " ", "P", "r", "a", "d", "e", "s", "h">>>>,
    <<<<"T", "S">>, <<"T", "e", "l", "a", "n", "g", "a", "n", "a">>>>,
    <<<<"K", "L">>, <<"K", "e", "r", "a", "l", "a">>>>,
    <<<<"B", "R">>, <<"B", "i", "h", "a", "r">>>>,
    <<<<"J", "H">>, <<"J", "h", "a", "r", "k", "h", "a", "n", "d">>>>,
    <<<<"O", "R">>, <<"O", "d", "i", "s", "h", "a">>>>,
    <<<<"O", "D">>, <<"O", "d", "i", "s", "h", "a">>>>,
    <<<<"C", "G">>, <<"C", "h", "h", "a", "t", "t", "i", "s", "g", "a", "r", "h">>>>,
    <<<<"U", "K">>, <<"U", "t", "t", "a", "r", "a", "k", "h", "a", "n", "d">>>>,
    <<<<"H", "P">>, <<"H", "i", "m", "a", "c", "h", "a", "l", " ", "P", "r", "a", "d", "e", "s", "h">>>>,
    <<<<"J", "K">>, <<"J", "a", "m", "m", "u", " ", "a", "n", "d", " ", "K", "a", "s", "h", "m", "i", "r">>>>,
    <<<<"G", "A">>, <<"G", "o", "a">>>>,
    <<<<"A", "S">>, <<"A", "s", "s", "a", "m">>>>,
    <<<<"C", "H">>, <<"C", "h", "a", "n", "d", "i", "g", "a", "r", "h">>>>,
    <<<<"S", "K">>, <<"S", "i", "k", "k", "i", "m">>>>,
    <<<<"M", "N">>, <<"M", "a", "n", "i", "p", "u", "r">>>>,
    <<<<"M", "L">>, <<"M", "e", "g", "h", "a", "l", "a", "y", "a">>>>,
    <<<<"M", "Z">>, <<"M", "i", "z", "o", "r", "a", "m">>>>,
    <<<<"N", "L">>, <<"N", "a", "g", "a", "l", "a", "n", "d">>>>,
    <<<<"T", "R">>, <<"T", "r", "i", "p", "u", "r", "a">>>>,
    <<<<"A", "R">>, <<"A", "r", "u", "n", "a", "c", "h", "a", "l", " ", "P", "r", "a", "d", "e", "s", "h">>>>,
    <<<<"P", "Y">>, <<"P", "u", "d", "u", "c", "h", "e", "r", "r", "y">>>>
>>

InAbbreviations(k) == \E i \in 1..Len(abbreviations) : abbreviations[i][1] = k
AbbreviationOf(k)  == abbreviations[CHOOSE i \in 1..Len(abbreviations) : abbreviations[i][1] = k][2]

\* state_mapping is a dict: a sequence of <<name, code>> with distinct names, in
\* insertion order.  dict.get(key) gives None when the key is missing.
MapGet(state_mapping, key) ==
    IF \E i \in 1..Len(state_mapping) : state_mapping[i][1] = key
    THEN state_mapping[CHOOSE i \in 1..Len(state_mapping) : state_mapping[i][1] = key][2]
    ELSE None

\* the last of the positions in hits instead of the first
LastIndex(hits) == IF hits = {} THEN 0 ELSE CHOOSE i \in hits : \A j \in hits : i >= j

\* the first of the positions of the dict iteration in hits, 0 when there is none
FirstIndex(hits) == IF hits = {} THEN 0 ELSE CHOOSE i \in hits : \A j \in hits : i <= j

\* the positions of the dict iteration
Items(state_mapping) == 1..Len(state_mapping)

\* a in b  (substring test)
IsSubstring(a, b) == \E i \in 0..(Len(b) - Len(a)) : SubSeq(b, i + 1, i + Len(a)) = a

\* re.match(r'^([A-Z]{2})-?(\d{2})$', u) for a u without trailing newline
MatchAbbrCode(u) ==
    \/ Len(u) = 4 /\ IsUpper(u[1]) /\ IsUpper(u[2]) /\ u[3] \in Digits /\ u[4] \in Digits
    \/ Len(u) = 5 /\ IsUpper(u[1]) /\ IsUpper(u[2]) /\ u[3] = "-"
                  /\ u[4] \in Digits /\ u[5] \in Digits

\* re.match(r'^\d{2}$', s)
MatchTwoDigits(s) == Len(s) = 2 /\ s[1] \in Digits /\ s[2] \in Digits

Pair(name, code) == [name |-> name, code |-> code]

\* normalize_state_name without the bare 2-digit rule
normalize_state_name_no_code_rule(input, state_mapping) ==
    IF input = None \/ input = <<>> THEN Pair(None, None)
    ELSE
    LET state_input == strip(input)
        upper_input == upper(state_input)
        abbr        == SubSeq(upper_input, 1, 2)
        byName    == FirstIndex({i \in Items(state_mapping) :
                                    lower(state_mapping[i][1]) = lower(state_input)})
        byPartial == FirstIndex({i \in Items(state_mapping) :
                                    IsSubstring(lower(state_input), lower(state_mapping[i][1]))})
    IN  IF MatchAbbrCode(upper_input) /\ InAbbreviations(abbr)
        THEN Pair(AbbreviationOf(abbr), MapGet(state_mapping, AbbreviationOf(abbr)))
        ELSE IF InAbbreviations(upper_input)
        THEN Pair(AbbreviationOf(upper_input), MapGet(state_mapping, AbbreviationOf(upper_input)))
        ELSE IF byName # 0
        THEN Pair(state_mapping[byName][1], state_mapping[byName][2])
        ELSE IF byPartial # 0
        THEN Pair(state_mapping[byPartial][1], state_mapping[byPartial][2])
        ELSE Pair(state_input, None)

\* normalize_state_name trying the exact name before the "UP-09" pattern
normalize_state_name_name_first(input, state_mapping) ==
    IF input = None \/ input = <<>> THEN Pair(None, None)
    ELSE
    LET state_input == strip(input)
        upper_input == upper(state_input)
        abbr        == SubSeq(upper_input, 1, 2)
        byCode    == FirstIndex({i \in Items(state_mapping) : state_mapping[i][2] = state_input})
        byName    == FirstIndex({i \in Items(state_mapping) :
                                    lower(state_mapping[i][1]) = lower(state_input)})
        byPartial == FirstIndex({i \in Items(state_mapping) :
                                    IsSubstring(lower(state_input), lower(state_mapping[i][1]))})
    IN  IF byName # 0
        THEN Pair(state_mapping[byName][1], state_mapping[byName][2])
        ELSE IF MatchAbbrCode(upper_input) /\ InAbbreviations(abbr)
        THEN Pair(AbbreviationOf(abbr), MapGet(state_mapping, AbbreviationOf(abbr)))
        ELSE IF MatchTwoDigits(state_input)
        THEN (IF byCode # 0 THEN Pair(state_mapping[byCode][1], state_mapping[byCode][2])
              ELSE Pair(None, state_input))
        ELSE IF InAbbreviations(upper_input)
        THEN Pair(AbbreviationOf(upper_input), MapGet(state_mapping, AbbreviationOf(upper_input)))
        ELSE IF byPartial # 0
        THEN Pair(state_mapping[byPartial][1], state_mapping[byPartial][2])
        ELSE Pair(state_input, None)

\* normalize_state_name whose partial match returns the input, not the map's name
normalize_state_name_partial_keeps_input(input, state_mapping) ==
    IF input = None \/ input = <<>> THEN Pair(None, None)
    ELSE
    LET state_input == strip(input)
        upper_input == upper(state_input)
        abbr        == SubSeq(upper_input, 1, 2)
        byCode    == FirstIndex({i \in Items(state_mapping) : state_mapping[i][2] = state_input})
        byName    == FirstIndex({i \in Items(state_mapping) :
                                    lower(state_mapping[i][1]) = lower(state_input)})
        byPartial == FirstIndex({i \in Items(state_mapping) :
                                    IsSubstring(lower(state_input), lower(state_mapping[i][1]))})
    IN  IF MatchAbbrCode(upper_input) /\ InAbbreviations(abbr)
        THEN Pair(AbbreviationOf(abbr), MapGet(state_mapping, AbbreviationOf(abbr)))
        ELSE IF MatchTwoDigits(state_input)
        THEN (IF byCode # 0 THEN Pair(state_mapping[byCode][1], state_mapping[byCode][2])
              ELSE Pair(None, state_input))
        ELSE IF InAbbreviations(upper_input)
        THEN Pair(AbbreviationOf(upper_input), MapGet(state_mapping, AbbreviationOf(upper_input)))
        ELSE IF byName # 0
        THEN Pair(state_mapping[byName][1], state_mapping[byName][2])
        ELSE IF byPartial # 0
        THEN Pair(state_input, state_mapping[byPartial][2])
        ELSE Pair(state_input, None)

normalize_state_name(input, state_mapping) ==
    IF input = None \/ input = <<>> THEN Pair(None, None)
    ELSE
    LET state_input == strip(input)
        upper_input == upper(state_input)
        abbr        == SubSeq(upper_input, 1, 2)
        byCode    == FirstIndex({i \in Items(state_mapping) : state_mapping[i][2] = state_input})
        byName    == FirstIndex({i \in Items(state_mapping) :
                                    lower(state_mapping[i][1]) = lower(state_input)})
        byPartial == FirstIndex({i \in Items(state_mapping) :
                                    IsSubstring(lower(state_input), lower(state_mapping[i][1]))})
    IN  IF MatchAbbrCode(upper_input) /\ InAbbreviations(abbr)
        THEN Pair(AbbreviationOf(abbr), MapGet(state_mapping, AbbreviationOf(abbr)))
        ELSE IF MatchTwoDigits(state_input)
        THEN (IF byCode # 0 THEN Pair(state_mapping[byCode][1], state_mapping[byCode][2])
              ELSE Pair(None, state_input))
        ELSE IF InAbbreviations(upper_input)
        THEN Pair(AbbreviationOf(upper_input), MapGet(state_mapping, AbbreviationOf(upper_input)))
        ELSE IF byName # 0
        THEN Pair(state_mapping[byName][1], state_mapping[byName][2])
        ELSE IF byPartial # 0
        THEN Pair(state_mapping[byPartial][1], state_mapping[byPartial][2])
        ELSE Pair(state_input, None)

(***************************************************************************)
(* The state machine: each function is called once on inputs drawn by Init *)
(***************************************************************************)
VARIABLES tax_pc, supplier_state, customer_state, subtotal, tax_info,
          norm_pc, state_input, state_mapping, resolution,
          words_pc, amount_arg, amount_words,
          inv_pc, extracted_data, calls, response,
          product_catalog, requests

vars == <<tax_pc, supplier_state, customer_state, subtotal, tax_info,
          norm_pc, state_input, state_mapping, resolution,
          words_pc, amount_arg, amount_words,
          inv_pc, extracted_data, calls, response,
          product_catalog, requests>>

taxVars     == <<tax_pc, supplier_state, customer_state, subtotal, tax_info>>
normVars    == <<norm_pc, state_input, state_mapping, resolution>>
wordsVars   == <<words_pc, amount_arg, amount_words>>
invoiceVars == <<inv_pc, extracted_data, calls, response>>
catalogVars == <<product_catalog, requests>>

S_Delhi == <<"D", "e", "l", "h", "i">>
S_Delhi_lead == <<" ", "D", "e", "l", "h", "i">>
S_delhi_trail == <<"d", "e", "l", "h", "i", " ">>
S_DL == <<"D", "L">>
S_Punjab == <<"P", "u", "n", "j", "a", "b">>
S_UttarPradesh == <<"U", "t", "t", "a", "r", " ", "P", "r", "a", "d", "e", "s", "h">>
S_Uttarakhand == <<"U", "t", "t", "a", "r", "a", "k", "h", "a", "n", "d">>
S_Uttar == <<"U", "t", "t", "a", "r">>
S_UP == <<"U", "P">>
S_UP_09 == <<"U", "P", "-", "0", "9">>
S_UP09 == <<"U", "P", "0", "9">>
S_up_07 == <<"u", "p", "-", "0", "7">>
S_up_09_padded == <<" ", "u", "p", "-", "0", "9", " ">>
S_XX_09 == <<"X", "X", "-", "0", "9">>
S_Code09 == <<"0", "9">>
S_Code05 == <<"0", "5">>
S_Code77 == <<"7", "7">>
S_Code99 == <<"9", "9">>
S_Blank == <<" ", " ">>
S_Zone09 == <<"Z", "o", "n", "e", " ", "0", "9">>
S_Goa == <<"G", "o", "a">>
S_uttar_pradesh_lc == <<"u", "t", "t", "a", "r", " ", "p", "r", "a", "d", "e", "s", "h">>
S_Code31 == <<"3", "1">>

\* all strings over an alphabet of length at most n
StringsUpTo(alphabet, n) == UNION {[1..k -> alphabet] : k \in 0..n}

\* bounds of the inputs
MaxMills     == 500
MaxStateLen  == 2
MaxInputLen  == 3
MaxMapLen    == 2

TaxAlphabet == {"D", "d", "L", " "}

\* state arguments: company_info['state'] and the request's billing state
NamedStates   == {S_Delhi, S_Delhi_lead, S_delhi_trail, S_DL, S_Punjab, <<>>, None}
SupplierFew   == {S_Delhi, S_Delhi_lead, None}
CustomerFew   == {S_Delhi, S_delhi_trail, S_DL, S_Punjab, <<>>, None}
StatesRich    == NamedStates \cup StringsUpTo(TaxAlphabet, MaxStateLen)

\* subtotals: thousandths up to MaxMills, the amounts of the examples, and the
\* floats float() accepts besides
SubtotalsRich == {FromDec(n, 3) : n \in 0..MaxMills}
                 \cup {FromDec(7670000, 2), FromDec(10000000, 2), FromDec(100000, 2),
                       FromDec(-10000, 2), FromDec(-1, 3), Inf, NegInf, NaN}
SubtotalsFew  == {FromDec(100000, 2)}

NoTaxInfo == [exc |-> "pending"]

TaxIdle == /\ tax_pc = "idle"
           /\ supplier_state = <<>> /\ customer_state = <<>>
           /\ subtotal = Zero /\ tax_info = NoTaxInfo

NoResolution == [name |-> <<>>, code |-> <<>>]

NormIdle == /\ norm_pc = "idle"
            /\ state_input = <<>> /\ state_mapping = <<>>
            /\ resolution = NoResolution

NoWords == [exc |-> "pending"]

WordsIdle == /\ words_pc = "idle"
             /\ amount_arg = Zero /\ amount_words = NoWords

NoResponse == [status |-> 0]

NoData == [state |-> None, state_code |-> None]

InvoiceIdle == /\ inv_pc = "idle"
               /\ extracted_data = NoData /\ calls = <<>>
               /\ response = NoResponse

CatalogIdle == /\ product_catalog = <<>> /\ requests = <<>>

InitTax ==
    /\ tax_pc = "call"
    /\ \/ /\ supplier_state \in StatesRich
          /\ customer_state \in StatesRich
          /\ subtotal \in SubtotalsFew
       \/ /\ supplier_state \in SupplierFew
          /\ customer_state \in CustomerFew
          /\ subtotal \in SubtotalsRich
    /\ tax_info = NoTaxInfo
    /\ NormIdle /\ WordsIdle /\ InvoiceIdle /\ CatalogIdle

\* tax_info = calculate_tax(company_info['state'], data['billing']['state'], total_before_tax)
CalculateTax ==
    /\ tax_pc = "call"
    /\ tax_info' = calculate_tax(supplier_state, customer_state, subtotal)
    /\ tax_pc' = "done"
    /\ UNCHANGED <<supplier_state, customer_state, subtotal,
                   normVars, wordsVars, invoiceVars, catalogVars>>

NextTax == CalculateTax

SpecTax == InitTax /\ [][NextTax]_vars

\* reference maps: dicts of at most MaxMapLen of these entries, in any order
MapEntries == {<<S_UttarPradesh, S_Code09>>, <<S_Uttarakhand, S_Code05>>,
               <<S_Delhi, S_Code09>>, <<S_UP_09, S_Code77>>, <<S_Zone09, S_Code31>>,
               <<S_Uttar, S_Code05>>}

IsDict(m) == \A i, j \in 1..Len(m) : i # j => m[i][1] # m[j][1]

StateMappings == {m \in UNION {[1..k -> MapEntries] : k \in 0..MaxMapLen} : IsDict(m)}

NormAlphabet == {"U", "p", "-", "0", "9", " "}

NamedInputs == {None, <<>>, S_Blank, S_UP_09, S_UP09, S_up_07, S_up_09_padded, S_XX_09,
                S_Code09, S_Code05, S_Code77, S_Code99, S_UP, S_DL, S_Uttar,
                S_uttar_pradesh_lc, S_Delhi, S_Goa, S_Zone09}

StateInputs == NamedInputs \cup StringsUpTo(NormAlphabet, MaxInputLen)

InitNorm ==
    /\ norm_pc = "call"
    /\ state_input \in StateInputs
    /\ state_mapping \in StateMappings
    /\ resolution = NoResolution
    /\ TaxIdle /\ WordsIdle /\ InvoiceIdle /\ CatalogIdle

\* state_name, state_code = normalize_state_name(extracted state, state_mapping)
NormalizeState ==
    /\ norm_pc = "call"
    /\ resolution' = normalize_state_name(state_input, state_mapping)
    /\ norm_pc' = "done"
    /\ UNCHANGED <<state_input, state_mapping,
                   taxVars, wordsVars, invoiceVars, catalogVars>>

NextNorm == NormalizeState

SpecNorm == InitNorm /\ [][NextNorm]_vars

(***************************************************************************)
(* Properties of calculate_tax (SpecTax)                                   *)
(***************************************************************************)
TaxReturned == tax_pc = "done" /\ tax_info.exc = "none"

\* x >= 0 on floats
NonNegative(x) == x.cls # "nan" /\ ~FNegative(x)

\* s without its leading and trailing whitespace, by positions
Core(s) ==
    LET solid == {i \in 1..Len(s) : s[i] \notin Whitespace}
    IN  IF solid = {} THEN <<>>
        ELSE SubSeq(s, CHOOSE i \in solid : \A j \in solid : i <= j,
                       CHOOSE i \in solid : \A j \in solid : i >= j)

\* a and b are the same text up to the case of their letters
SameUpToCase(a, b) ==
    /\ Len(a) = Len(b)
    /\ \A i \in 1..Len(a) :
          \/ a[i] = b[i]
          \/ \E k \in 1..26 : {a[i], b[i]} = {UpperChars[k], LowerChars[k]}

\* C1: calculate_tax classifies a transaction as intra-state ('SGST') if and only
\* if the two state strings are equal after trimming surrounding whitespace and
\* lower-casing, and as 'IGST' otherwise; ("Delhi", "delhi ") and
\* (" Delhi", "Delhi") are intra-state and ("Delhi", "DL") is inter-state,
\* whatever the subtotal.
C1_Classification ==
    TaxReturned =>
        /\ tax_info.tax_type \in {"SGST", "IGST"}
        /\ tax_info.tax_type = "SGST"
              <=> SameUpToCase(Core(supplier_state), Core(customer_state))
        /\ supplier_state = S_Delhi /\ customer_state = S_delhi_trail
              => tax_info.tax_type = "SGST"
        /\ supplier_state = S_Delhi_lead /\ customer_state = S_Delhi
              => tax_info.tax_type = "SGST"
        /\ supplier_state = S_Delhi /\ customer_state = S_DL
              => tax_info.tax_type = "IGST"

C1_Witness ==
    /\ TaxReturned
    /\ supplier_state = S_Delhi /\ customer_state = S_delhi_trail
    /\ tax_info.tax_type = "SGST"

\* C2: for an intra-state call with subtotal >= 0, cgst and sgst are each
\* subtotal * 0.09 rounded to 2 decimals, cgst == sgst, igst == 0 and
\* total_tax == 2 * cgst; subtotal 76700.00 gives cgst = sgst = 6903.00,
\* total_tax = 13806.00 and total_after_tax = 90506.00.
C2_IntraState ==
    TaxReturned /\ tax_info.tax_type = "SGST" /\ NonNegative(subtotal) =>
        /\ tax_info.cgst = round2(FMul(subtotal, FromDec(9, 2)))
        /\ tax_info.sgst = round2(FMul(subtotal, FromDec(9, 2)))
        /\ FEq(tax_info.cgst, tax_info.sgst)
        /\ FEq(tax_info.igst, Zero)
        /\ FEq(tax_info.total_tax, FMul(FromDec(2, 0), tax_info.cgst))
        /\ subtotal = FromDec(7670000, 2) =>
              /\ tax_info.cgst = FromDec(690300, 2)
              /\ tax_info.sgst = FromDec(690300, 2)
              /\ tax_info.total_tax = FromDec(1380600, 2)
              /\ tax_info.total_after_tax = FromDec(9050600, 2)

\* an intra-state result whose total differs from 18% rounded once at the end
C2_Witness ==
    /\ TaxReturned /\ tax_info.tax_type = "SGST" /\ NonNegative(subtotal)
    /\ ~FIsZero(tax_info.cgst)
    /\ ~FEq(tax_info.total_tax, round2(FMul(subtotal, FromDec(18, 2))))

\* C3: for an inter-state call with subtotal >= 0, cgst == 0, sgst == 0, igst is
\* subtotal * 0.18 rounded to 2 decimals and total_tax == igst; 100000.00 from
\* Delhi to Punjab gives igst = total_tax = 18000.00 and total_after_tax =
\* 118000.00, and 76700 from Delhi to Punjab gives IGST 13806.
C3_InterState ==
    TaxReturned /\ tax_info.tax_type = "IGST" /\ NonNegative(subtotal) =>
        /\ FEq(tax_info.cgst, Zero)
        /\ FEq(tax_info.sgst, Zero)
        /\ tax_info.igst = round2(FMul(subtotal, FromDec(18, 2)))
        /\ FEq(tax_info.total_tax, tax_info.igst)
        /\ subtotal = FromDec(10000000, 2) =>
              /\ tax_info.igst = FromDec(1800000, 2)
              /\ tax_info.total_tax = FromDec(1800000, 2)
              /\ tax_info.total_after_tax = FromDec(11800000, 2)
        /\ subtotal = FromDec(7670000, 2) =>
              tax_info.igst = FromDec(1380600, 2)

C3_Witness ==
    /\ TaxReturned /\ tax_info.tax_type = "IGST"
    /\ supplier_state = S_Delhi /\ customer_state = S_Punjab
    /\ subtotal = FromDec(10000000, 2)
    /\ tax_info.total_after_tax = FromDec(11800000, 2)

PairNonZero == ~FEq(tax_info.cgst, Zero) \/ ~FEq(tax_info.sgst, Zero)
IgstNonZero == ~FEq(tax_info.igst, Zero)

ComponentsNonNegative ==
    NonNegative(tax_info.cgst) /\ NonNegative(tax_info.sgst) /\ NonNegative(tax_info.igst)

\* C4 as claimed: every result for a subtotal >= 0 has non-negative cgst, sgst
\* and igst, and exactly one of the pair {cgst, sgst} or the component {igst} is
\* non-zero while the other is zero, also for subtotal 0 and for amounts whose
\* rounded tax is 0.00.
C4_ExactlyOneNonZero ==
    TaxReturned /\ NonNegative(subtotal) =>
        /\ ComponentsNonNegative
        /\ PairNonZero # IgstNonZero

\* C4 amended: every result for a subtotal >= 0 has non-negative cgst, sgst and
\* igst, and at most one of the pair {cgst, sgst} or the component {igst} is
\* non-zero: the components of the other classification are zero, and the
\* active one is non-zero exactly when total_tax is non-zero; for subtotal 0
\* all three are zero.
C4_AtMostOneNonZero ==
    TaxReturned /\ NonNegative(subtotal) =>
        /\ ComponentsNonNegative
        /\ ~(PairNonZero /\ IgstNonZero)
        /\ tax_info.tax_type = "SGST" => ~IgstNonZero
        /\ tax_info.tax_type = "IGST" => ~PairNonZero
        /\ (PairNonZero \/ IgstNonZero) <=> ~FEq(tax_info.total_tax, Zero)
        /\ FIsZero(subtotal) => ~PairNonZero /\ ~IgstNonZero

\* a positive subtotal whose rounded tax is 0.00: no component is non-zero
C4_Witness ==
    /\ TaxReturned
    /\ NonNegative(subtotal) /\ ~FIsZero(subtotal)
    /\ ~PairNonZero /\ ~IgstNonZero

\* C5: calculate_tax fails, returning no result, whenever a state string is
\* absent or empty or the subtotal is negative or not finite, and never returns
\* a negative tax amount.
C5_RejectsInvalidArguments ==
    tax_pc = "done" =>
        /\ \/ supplier_state \in {None, <<>>}
           \/ customer_state \in {None, <<>>}
           \/ FNegative(subtotal)
           \/ subtotal.cls # "finite"
           => tax_info.exc # "none"
        /\ tax_info.exc = "none" =>
              /\ ~FNegative(tax_info.cgst) /\ ~FNegative(tax_info.sgst)
              /\ ~FNegative(tax_info.igst) /\ ~FNegative(tax_info.total_tax)

\* C6 as claimed, up to the float tolerance of 2 decimals the data model allows:
\* for every subtotal >= 0, also one with more than 2 decimals, total_after_tax
\* equals round(subtotal, 2) + round(total_tax, 2) as a 2-decimal amount.
C6_TotalIsSumOfRounded ==
    TaxReturned /\ NonNegative(subtotal) =>
        FEq(tax_info.total_after_tax,
            round2(FAdd(round2(subtotal), round2(tax_info.total_tax))))

\* x has at most 2 decimals: it is the float of its own 2-decimal rounding
TwoDecimals(x) == x.cls = "finite" /\ round2(x) = x

\* C6 amended: for every subtotal >= 0 with at most 2 decimals, and both
\* classifications, total_after_tax equals round(subtotal, 2) +
\* round(total_tax, 2) rounded to 2 decimals.
C6_TotalIsSumOfRounded2dp ==
    TaxReturned /\ NonNegative(subtotal) /\ TwoDecimals(subtotal) =>
        FEq(tax_info.total_after_tax,
            round2(FAdd(round2(subtotal), round2(tax_info.total_tax))))

\* a 2-decimal subtotal where the float sum of the two rounded parts is not
\* itself the 2-decimal total (0.05 + 0.01)
C6_Witness ==
    /\ TaxReturned /\ NonNegative(subtotal) /\ TwoDecimals(subtotal)
    /\ ~FIsZero(tax_info.total_tax)
    /\ ~FEq(tax_info.total_after_tax, FAdd(round2(subtotal), round2(tax_info.total_tax)))

(***************************************************************************)
(* Properties of normalize_state_name (SpecNorm)                           *)
(***************************************************************************)
NormDone == norm_pc = "done"

\* the input is absent, empty, or blank once trimmed
BlankInput == state_input = None \/ Core(state_input) = <<>>

\* the input is a string and Trimmed is what is left of it after trimming
TextInput == state_input # None /\ state_input # <<>>
Trimmed   == Core(state_input)

\* the names of the map that carry a code
NamesWithCode(code) ==
    {state_mapping[i][1] : i \in {j \in 1..Len(state_mapping) : state_mapping[j][2] = code}}

\* C7: normalize_state_name returns (absent, absent) for an absent input, for the
\* empty string and for an input that is empty after trimming, whatever the
\* reference map holds.
C7_BlankGivesAbsent ==
    NormDone /\ BlankInput => resolution = Pair(None, None)

\* C8 as claimed: whenever a code is returned, it is the code the reference map
\* assigns to the returned name, so never with an absent name.
C8_CodeBelongsToName ==
    NormDone /\ resolution.code # None =>
        /\ resolution.name # None
        /\ MapGet(state_mapping, resolution.name) = resolution.code

\* C8 amended: whenever a code is returned, either it is the code the reference
\* map assigns to the returned name, or the trimmed input is a bare two-digit
\* code that no entry of the map carries and the result is (absent name, that
\* input as the code).
C8_CodeBelongsToNameOrPassesThrough ==
    NormDone /\ resolution.code # None =>
        \/ /\ resolution.name # None
           /\ MapGet(state_mapping, resolution.name) = resolution.code
        \/ /\ TextInput
           /\ Len(Trimmed) = 2 /\ Trimmed[1] \in Digits /\ Trimmed[2] \in Digits
           /\ NamesWithCode(Trimmed) = {}
           /\ resolution = Pair(None, Trimmed)

\* a code resolved through the substring rule
C8_Witness ==
    /\ NormDone /\ state_input = S_Uttar
    /\ resolution.code # None /\ resolution.name # None
    /\ MapGet(state_mapping, resolution.name) = resolution.code

\* C9: when the trimmed input is exactly two digits, the result is (name, code)
\* for a name whose code in the map equals the input if there is one, and
\* (absent name, the input as code) otherwise; no later rule is tried.
C9_BareCode ==
    NormDone /\ TextInput /\ Len(Trimmed) = 2
             /\ Trimmed[1] \in Digits /\ Trimmed[2] \in Digits =>
        IF NamesWithCode(Trimmed) # {}
        THEN resolution.name \in NamesWithCode(Trimmed) /\ resolution.code = Trimmed
        ELSE resolution = Pair(None, Trimmed)

\* "09" against a map without that code but with a name that contains "09"
C9_Witness ==
    /\ NormDone /\ state_input = S_Code09
    /\ \E i \in 1..Len(state_mapping) : state_mapping[i][1] = S_Zone09
    /\ NamesWithCode(S_Code09) = {}
    /\ resolution = Pair(None, S_Code09)

\* the full name of the abbreviation that starts the text u
FullNameOfPrefix(u) ==
    abbreviations[CHOOSE i \in 1..Len(abbreviations) :
                      abbreviations[i][1] = <<u[1], u[2]>>][2]

\* u is a known abbreviation, then optionally a hyphen, then two digits
AbbrThenCode(u) ==
    /\ Len(u) \in {4, 5}
    /\ \E i \in 1..Len(abbreviations) : abbreviations[i][1] = <<u[1], u[2]>>
    /\ Len(u) = 5 => u[3] = "-"
    /\ u[Len(u) - 1] \in Digits /\ u[Len(u)] \in Digits

\* C10: when the trimmed, uppercased input is a known 2-letter abbreviation,
\* optionally a hyphen, and two digits, the result is the abbreviation's full
\* name with the code the map holds for that name (absent if it holds none);
\* the digits of the input are not used, and no other rule is tried first.
C10_AbbreviationWithCode ==
    NormDone /\ TextInput /\ AbbrThenCode(upper(Trimmed)) =>
        /\ resolution.name = FullNameOfPrefix(upper(Trimmed))
        /\ resolution.code = MapGet(state_mapping, resolution.name)

\* "UP-09" against a map that has "UP-09" itself as a name
C10_Witness ==
    /\ NormDone /\ state_input = S_UP_09
    /\ \E i \in 1..Len(state_mapping) : state_mapping[i][1] = S_UP_09
    /\ resolution.name = S_UttarPradesh

\* text occurs in name when the case of letters is ignored
ContainsUpToCase(name, text) ==
    \E k \in 0..(Len(name) - Len(text)) : SameUpToCase(SubSeq(name, k + 1, k + Len(text)), text)

\* the position of a name in the reference map, 0 when it is not a key
PositionOf(name) ==
    IF \E i \in 1..Len(state_mapping) : state_mapping[i][1] = name
    THEN CHOOSE i \in 1..Len(state_mapping) : state_mapping[i][1] = name
    ELSE 0

\* C11 as claimed: for every reference map that maps "Uttar Pradesh" to "09",
\* whatever its other entries and their order, "Uttar" resolves to
\* ("Uttar Pradesh", "09").
C11_UttarResolvesToUttarPradesh ==
    NormDone /\ state_input = S_Uttar /\ MapGet(state_mapping, S_UttarPradesh) = S_Code09
        => resolution = Pair(S_UttarPradesh, S_Code09)

\* C11 amended: for every reference map that maps "Uttar Pradesh" to "09", has no
\* name equal to "uttar" up to case, and lists "Uttar Pradesh" before every other
\* name that contains "uttar" up to case, "Uttar" resolves through the substring
\* rule to ("Uttar Pradesh", "09"); when another name containing "uttar" comes
\* first in the map's order (e.g. "Uttarakhand"), that name and its code are
\* the result.
C11_UttarResolvesToFirstMatch ==
    NormDone /\ state_input = S_Uttar /\ MapGet(state_mapping, S_UttarPradesh) = S_Code09
             /\ (\A i \in 1..Len(state_mapping) : ~SameUpToCase(state_mapping[i][1], S_Uttar))
        => LET earlier == {i \in 1..(PositionOf(S_UttarPradesh) - 1) :
                              ContainsUpToCase(state_mapping[i][1], S_Uttar)}
           IN  IF earlier = {}
               THEN resolution = Pair(S_UttarPradesh, S_Code09)
               ELSE \E i \in earlier :
                       /\ \A j \in earlier : i <= j
                       /\ resolution = Pair(state_mapping[i][1], state_mapping[i][2])

\* "Uttar" against a map that lists "Uttar Pradesh" and then "Uttarakhand"
C11_Witness ==
    /\ NormDone /\ state_input = S_Uttar
    /\ state_mapping = <<(<<S_UttarPradesh, S_Code09>>), (<<S_Uttarakhand, S_Code05>>)>>
    /\ resolution = Pair(S_UttarPradesh, S_Code09)

(***************************************************************************)
(* utils/number_to_words.py: amount_to_words                               *)
(***************************************************************************)
\* the words of num2words for 0..19 and for 20, 30, .. 90
low_numwords == <<
    <<"z", "e", "r", "o">>,
    <<"o", "n", "e">>,
    <<"t", "w", "o">>,
    <<"t", "h", "r", "e", "e">>,
    <<"f", "o", "u", "r">>,
    <<"f", "i", "v", "e">>,
    <<"s", "i", "x">>,
    <<"s", "e", "v", "e", "n">>,
    <<"e", "i", "g", "h", "t">>,
    <<"n", "i", "n", "e">>,
    <<"t", "e", "n">>,
    <<"e", "l", "e", "v", "e", "n">>,
    <<"t", "w", "e", "l", "v", "e">>,
    <<"t", "h", "i", "r", "t", "e", "e", "n">>,
    <<"f", "o", "u", "r", "t", "e", "e", "n">>,
    <<"f", "i", "f", "t", "e", "e", "n">>,
    <<"s", "i", "x", "t", "e", "e", "n">>,
    <<"s", "e", "v", "e", "n", "t", "e", "e", "n">>,
    <<"e", "i", "g", "h", "t", "e", "e", "n">>,
    <<"n", "i", "n", "e", "t", "e", "e", "n">>
>>
tens_numwords == <<
    <<"t", "w", "e", "n", "t", "y">>,
    <<"t", "h", "i", "r", "t", "y">>,
    <<"f", "o", "r", "t", "y">>,
    <<"f", "i", "f", "t", "y">>,
    <<"s", "i", "x", "t", "y">>,
    <<"s", "e", "v", "e", "n", "t", "y">>,
    <<"e", "i", "g", "h", "t", "y">>,
    <<"n", "i", "n", "e", "t", "y">>
>>

W_hundred  == <<"h", "u", "n", "d", "r", "e", "d">>
W_thousand == <<"t", "h", "o", "u", "s", "a", "n", "d">>
W_lakh     == <<"l", "a", "k", "h">>
W_crore    == <<"c", "r", "o", "r", "e">>
W_minus    == <<"m", "i", "n", "u", "s", " ">>
W_and      == <<" ", "a", "n", "d", " ">>
W_comma    == <<",", " ">>
W_Rupees   == <<"R", "u", "p", "e", "e", "s", " ">>
W_andPaise == <<" ", "a", "n", "d", " ", "P", "a", "i", "s", "e", " ">>
W_Only     == <<" ", "O", "n", "l", "y">>
W_inf      == <<"i", "n", "f">>
W_nan      == <<"n", "a", "n">>

\* num2words raises OverflowError from MAXVAL = 1000 * 10^7 on (lang en_IN)
MAXVAL == BMul(BFromInt(100000), BFromInt(100000))

\* the value of a natural that fits a machine integer
RECURSIVE BToInt(_)
BToInt(a) == IF a = <<>> THEN 0 ELSE a[1] + LimbBase * BToInt(Tail(a))

\* the decimal digits of a natural, most significant first ("0" for zero)
DigitChars == <<"0", "1", "2", "3", "4", "5", "6", "7", "8", "9">>

RECURSIVE BToDecimal(_)
BToDecimal(a) ==
    LET x == BDivSmall(a, 10)
    IN  IF x.q = <<>> THEN <<DigitChars[x.r + 1]>>
        ELSE BToDecimal(x.q) \o <<DigitChars[x.r + 1]>>

\* cardinal words of 0 <= n < 100, and of 0 < n < 1000
Words99(n) ==
    IF n < 20 THEN low_numwords[n + 1]
    ELSE IF n % 10 = 0 THEN tens_numwords[(n \div 10) - 1]
    ELSE tens_numwords[(n \div 10) - 1] \o <<"-">> \o low_numwords[(n % 10) + 1]

Words999(n) ==
    IF n < 100 THEN Words99(n)
    ELSE IF n % 100 = 0 THEN low_numwords[(n \div 100) + 1] \o <<" ">> \o W_hundred
    ELSE low_numwords[(n \div 100) + 1] \o <<" ">> \o W_hundred \o W_and \o Words99(n % 100)

\* the groups after a head are joined by " and " when they are below 100 and by
\* ", " otherwise
JoinRest(head, rest) ==
    IF rest = 0 THEN <<>>
    ELSE (IF head THEN (IF rest < 100 THEN W_and ELSE W_comma) ELSE <<>>) \o Words999(rest)

\* num2words(n, lang='en_IN') for a natural n < MAXVAL: crore, lakh, thousand
\* and the last three digits
Cardinal(n) ==
    LET d1 == BDivSmall(n, 1000)
        d2 == BDivSmall(d1.q, 100)
        d3 == BDivSmall(d2.q, 100)
        h  == d1.r
        t  == d2.r
        l  == d3.r
        c  == BToInt(d3.q)
        Unit(k, word, head) ==
            IF k = 0 THEN <<>>
            ELSE (IF head THEN W_comma ELSE <<>>) \o Words999(k) \o <<" ">> \o word
    IN  IF n = <<>> THEN low_numwords[1]
        ELSE Unit(c, W_crore, FALSE)
             \o Unit(l, W_lakh, c > 0)
             \o Unit(t, W_thousand, c > 0 \/ l > 0)
             \o JoinRest(c > 0 \/ l > 0 \/ t > 0, h)

\* num2words(value, lang='en_IN') of a Python int [neg, mag]
num2words(value) ==
    IF BCmp(value.mag, MAXVAL) >= 0 THEN Raised("OverflowError")
    ELSE [exc |-> "none",
          value |-> (IF value.neg /\ value.mag # <<>> THEN W_minus ELSE <<>>) \o Cardinal(value.mag)]

IsLetter(c) == IsUpper(c) \/ IsLower(c)

\* str.title()
title(s) == [i \in 1..Len(s) |->
                IF i = 1 \/ ~IsLetter(s[i - 1]) THEN UpperChar(s[i]) ELSE LowerChar(s[i])]

\* int(x) of a float: truncation towards zero, as a Python int [neg, mag]
int(x) ==
    IF x.cls = "inf" THEN Raised("OverflowError")
    ELSE IF x.cls = "nan" THEN Raised("ValueError")
    ELSE [exc |-> "none", neg |-> x.neg,
          mag |-> IF x.e >= 0 THEN BShl(x.m, x.e) ELSE BShr(x.m, -x.e)]

\* float(i) of a Python int
IntToFloat(i) == IF i.mag = <<>> THEN Zero ELSE FRound(i.neg, i.mag, FALSE, 0)

\* x - y on floats
FSub(x, y) == FAdd(x, [y EXCEPT !.neg = ~y.neg])

Signed(neg, n) == IF neg THEN -n ELSE n

\* round(x) of a finite float of small magnitude: a Python int, here a number
round0(x) == Signed(x.neg, BToInt(RoundScaled(x, 1)))

\* sign, integer digits, "." and the two digits of the hundredths d.r
Fixed2(neg, d) ==
    (IF neg THEN <<"-">> ELSE <<>>)
    \o BToDecimal(d.q)
    \o <<".", DigitChars[(d.r \div 10) + 1], DigitChars[(d.r % 10) + 1]>>

\* f"{x:.2f}"
format2f(x) ==
    IF x.cls = "nan" THEN W_nan
    ELSE IF x.cls = "inf" THEN (IF x.neg THEN <<"-">> ELSE <<>>) \o W_inf
    ELSE Fixed2(x.neg, BDivSmall(RoundScaled(x, 100), 100))

\* a paise clause that is appended for every paise >= 0
PaiseClause_always(paise) ==
    IF paise >= 0
    THEN W_andPaise \o title(num2words([neg |-> FALSE, mag |-> BFromInt(paise)]).value)
    ELSE <<>>

\* if paise > 0: words += " and Paise " + num2words(paise, lang='en_IN').title()
PaiseClause(paise) ==
    IF paise > 0
    THEN W_andPaise \o title(num2words([neg |-> FALSE, mag |-> BFromInt(paise)]).value)
    ELSE <<>>

\* the string built from the words of the rupees, with the rupees and paise
\* it was built from, or the exception of num2words
WordsOf(rupees, paise, r_words) ==
    IF r_words.exc # "none" THEN Raised(r_words.exc)
    ELSE [exc |-> "none", rupees |-> [neg |-> rupees.neg, mag |-> rupees.mag],
          paise |-> paise,
          words |-> W_Rupees \o title(r_words.value) \o PaiseClause(paise) \o W_Only]

\* the try block from paise = round((amount - rupees) * 100) on
WordsFrom(amount, rupees) ==
    IF rupees.exc # "none" THEN Raised(rupees.exc)
    ELSE WordsOf(rupees,
                 round0(FMul(FSub(amount, IntToFloat(rupees)), FromDec(100, 0))),
                 num2words(rupees))

\* the try block of amount_to_words: the string it returns with the rupees and
\* paise it computed, or the exception it raises
amount_to_words_try(amount) == WordsFrom(amount, int(amount))

\* what the except clause gives
Fallback(amount) ==
    [exc |-> "none", rupees |-> [neg |-> FALSE, mag |-> <<>>], paise |-> 0,
     words |-> W_Rupees \o format2f(amount) \o W_Only]

\* "except Exception" catches every exception of the try block
Caught(try, amount) == IF try.exc # "none" THEN Fallback(amount) ELSE try

\* an except clause that catches ValueError only
amount_to_words_catches_value_error(amount) ==
    LET try == amount_to_words_try(amount)
    IN  IF try.exc = "ValueError" THEN Fallback(amount) ELSE try

\* amount_to_words(amount)
amount_to_words(amount) == Caught(amount_to_words_try(amount), amount)

(***************************************************************************)
(* amount_to_words called once on an amount drawn by Init (SpecWords)      *)
(***************************************************************************)
MaxAmountMills == 2000

\* 10^10 and 9999999999.99, the two floats around MAXVAL
F_1e10    == FMul(FromDec(100000, 0), FromDec(100000, 0))
F_MaxConv == FromRatio(FALSE, BAdd(BMulSmall(BFromInt(999999999), 1000), BFromInt(999)), 100)

\* amounts: thousandths up to MaxAmountMills, the amounts of the examples, the
\* floats around the largest convertible number, and the other floats a total
\* can be
Amounts == {FromDec(n, 3) : n \in 0..MaxAmountMills}
           \cup {FromDec(11800000, 2), FromDec(9050600, 2), FromDec(2345678, 2),
                 FromDec(1234567891, 2), F_MaxConv, F_1e10,
                 FromDec(-1500, 3), FromDec(-1996, 3), NegZero, Inf, NegInf, NaN}

InitWords ==
    /\ words_pc = "call"
    /\ amount_arg \in Amounts
    /\ amount_words = NoWords
    /\ TaxIdle /\ NormIdle /\ InvoiceIdle /\ CatalogIdle

\* amount_words = amount_to_words(tax_info['total_after_tax'])
AmountToWords ==
    /\ words_pc = "call"
    /\ amount_words' = amount_to_words(amount_arg)
    /\ words_pc' = "done"
    /\ UNCHANGED <<amount_arg, taxVars, normVars, invoiceVars, catalogVars>>

NextWords == AmountToWords

SpecWords == InitWords /\ [][NextWords]_vars

(***************************************************************************)
(* Properties of amount_to_words (SpecWords)                               *)
(***************************************************************************)
WordsDone == words_pc = "done"

\* the word conversion of the argument raised nothing
Converted == int(amount_arg).exc = "none" /\ num2words(int(amount_arg)).exc = "none"

W_PaiseOneHundred == <<"P", "a", "i", "s", "e", " ", "O", "n", "e", " ",
                       "H", "u", "n", "d", "r", "e", "d">>
W_RupeesZeroOnly  == <<"R", "u", "p", "e", "e", "s", " ", "Z", "e", "r", "o", " ",
                       "O", "n", "l", "y">>
W_RupeesInfOnly   == <<"R", "u", "p", "e", "e", "s", " ", "i", "n", "f", " ",
                       "O", "n", "l", "y">>

StartsWith(s, prefix) == Len(s) >= Len(prefix) /\ SubSeq(s, 1, Len(prefix)) = prefix
EndsWith(s, suffix)   == Len(s) >= Len(suffix)
                         /\ SubSeq(s, Len(s) - Len(suffix) + 1, Len(s)) = suffix

\* C12: for every non-negative amount the rendered paise is in 0..99 (a
\* fraction that rounds to 100 is carried into the rupees), so the output never
\* has a paise clause of one hundred
C12_PaiseBelowHundred ==
    (WordsDone /\ amount_words.exc = "none" /\ NonNegative(amount_arg) /\ Converted)
        => /\ amount_words.paise \in 0..99
           /\ ~IsSubstring(W_PaiseOneHundred, amount_words.words)

\* C13: amount_to_words raises nothing and returns a non-empty string; when the
\* word conversion fails the string is "Rupees " + the amount to 2 decimals +
\* " Only"
C13_FallbackNeverRaises ==
    WordsDone
        => /\ amount_words.exc = "none"
           /\ amount_words.words # <<>>
           /\ ~Converted
                => amount_words.words = W_Rupees \o format2f(amount_arg) \o W_Only
           /\ amount_arg = Inf => amount_words.words = W_RupeesInfOnly

C13_Witness ==
    /\ WordsDone /\ ~Converted /\ amount_arg = F_1e10
    /\ amount_words.exc = "none"
    /\ StartsWith(amount_words.words, W_Rupees \o <<"1", "0", "0">>)

\* C14: for a non-negative amount whose conversion succeeds the output starts
\* with "Rupees ", ends with " Only" and has the " and Paise " clause exactly
\* when the computed paise is above 0; 0 gives "Rupees Zero Only" and
\* 118000.00 has no Paise clause
C14_OutputShape ==
    (WordsDone /\ amount_words.exc = "none" /\ NonNegative(amount_arg) /\ Converted)
        => /\ StartsWith(amount_words.words, W_Rupees)
           /\ EndsWith(amount_words.words, W_Only)
           /\ IsSubstring(W_andPaise, amount_words.words) <=> amount_words.paise > 0
           /\ FIsZero(amount_arg) => amount_words.words = W_RupeesZeroOnly
           /\ amount_arg = FromDec(11800000, 2)
                => ~IsSubstring(<<"P", "a", "i", "s", "e">>, amount_words.words)

C14_Witness ==
    /\ WordsDone /\ Converted /\ amount_arg = FromDec(2345678, 2)
    /\ amount_words.paise = 78
    /\ IsSubstring(W_andPaise, amount_words.words)

(***************************************************************************)
(* The two endpoints that take external input: /api/extract-pdf and        *)
(* /generate-invoice (SpecInvoice).  calls is the log of the calls the     *)
(* handlers make, in order.                                                *)
(***************************************************************************)
S_Code07 == <<"0", "7">>
S_Code03 == <<"0", "3">>

\* load_state_mapping(): a reference map with the states of the inputs
InvoiceMapping == <<<<S_Delhi, S_Code07>>, <<S_Punjab, S_Code03>>,
                    <<S_UttarPradesh, S_Code09>>>>

\* company_info['state']
CompanyState == S_Delhi

\* billing states the extraction model reads off the document
ExtractedStates == {None, <<>>, S_Delhi, S_DL, S_delhi_trail, S_Punjab, S_UP_09,
                    S_Code07, S_Goa}

\* billing states typed into the form
SubmittedStates == {None, <<>>, S_Delhi, S_DL, S_delhi_trail, S_Punjab, S_UP_09, S_Goa}

\* total_before_tax of the request
InvoiceTotals == {FromDec(100000, 2), FromDec(7670000, 2)}

Truthy(s) == s # None /\ s # <<>>

InitInvoice ==
    /\ inv_pc = "start"
    /\ extracted_data = NoData
    /\ calls = <<>>
    /\ response = NoResponse
    /\ TaxIdle /\ NormIdle /\ WordsIdle /\ CatalogIdle

\* POST /api/extract-pdf: extract_pdf_data and extract_data_from_pdf; the
\* billing state the model read is normalised when it is not empty
ExtractPdfData ==
    /\ inv_pc = "start"
    /\ \/ /\ response' = [status |-> 400]
          /\ inv_pc' = "extract_failed"
          /\ UNCHANGED <<extracted_data, calls>>
       \/ \E raw \in ExtractedStates :
            \E norm \in {normalize_state_name(raw, InvoiceMapping)} :
                /\ IF Truthy(raw)
                   THEN /\ calls' = Append(calls, [fn |-> "normalize_state_name",
                                                   state_input |-> raw,
                                                   state_name |-> norm.name])
                        /\ extracted_data' = [state |-> norm.name,
                                              state_code |-> IF Truthy(norm.code)
                                                             THEN norm.code ELSE None]
                   ELSE /\ calls' = calls
                        /\ extracted_data' = [state |-> raw, state_code |-> None]
                /\ response' = [status |-> 200]
                /\ inv_pc' = "extracted"
    /\ UNCHANGED <<taxVars, normVars, wordsVars, catalogVars>>

\* the calls generate_invoice makes for a request with all required fields,
\* given what calculate_tax and amount_to_words return
InvoiceCalls(billing_state, tax, words) ==
    LET taxed == [fn |-> "calculate_tax", supplier_state |-> CompanyState,
                  customer_state |-> billing_state, tax_info |-> tax]
    IN  IF tax.exc # "none" THEN <<taxed>>
        ELSE <<taxed,
               [fn |-> "amount_to_words", amount |-> tax.total_after_tax,
                words |-> words.words],
               [fn |-> "generate_invoice_pdf", tax_type |-> tax.tax_type,
                total_after_tax |-> tax.total_after_tax,
                amount_in_words |-> words.words]>>

\* POST /generate-invoice: the billing state of the JSON is what the form
\* holds, typed in or filled from the extraction
GenerateInvoice ==
    /\ inv_pc \in {"start", "extracted"}
    /\ \/ /\ response' = [status |-> 400]
          /\ calls' = calls
       \/ \E billing_state \in SubmittedStates \cup
                                (IF inv_pc = "extracted" THEN {extracted_data.state} ELSE {}),
             total_before_tax \in InvoiceTotals :
            \E tax \in {calculate_tax(CompanyState, billing_state, total_before_tax)} :
            \E words \in {IF tax.exc = "none" THEN amount_to_words(tax.total_after_tax)
                                              ELSE NoWords} :
                /\ calls' = calls \o InvoiceCalls(billing_state, tax, words)
                /\ response' = [status |-> IF tax.exc = "none" THEN 200 ELSE 500]
    /\ inv_pc' = "done"
    /\ UNCHANGED <<extracted_data, taxVars, normVars, wordsVars, catalogVars>>

NextInvoice == ExtractPdfData \/ GenerateInvoice

SpecInvoice == InitInvoice /\ [][NextInvoice]_vars

(***************************************************************************)
(* Properties of the invoice path (SpecInvoice)                            *)
(***************************************************************************)
Called(i, fn) == i \in DOMAIN calls /\ calls[i].fn = fn

\* C15: the calls occur in the order normalize_state_name, calculate_tax on
\* the cleaned billing state, amount_to_words on its total_after_tax, renderer
\* with both outputs; calculate_tax is never called on a state that has not
\* come out of the normalizer
C15_NormalizedBeforeTax ==
    /\ \A i \in DOMAIN calls :
          Called(i, "calculate_tax")
            => \E j \in 1..(i - 1) :
                 /\ Called(j, "normalize_state_name")
                 /\ calls[j].state_name = calls[i].customer_state
    /\ \A i \in DOMAIN calls :
          Called(i, "amount_to_words")
            => /\ Called(i - 1, "calculate_tax")
               /\ calls[i - 1].tax_info.exc = "none"
               /\ calls[i].amount = calls[i - 1].tax_info.total_after_tax
    /\ \A i \in DOMAIN calls :
          Called(i, "generate_invoice_pdf")
            => /\ Called(i - 1, "amount_to_words")
               /\ calls[i].amount_in_words = calls[i - 1].words
               /\ calls[i].total_after_tax = calls[i - 1].amount

(***************************************************************************)
(* POST /api/products served concurrently (SpecCatalog).  Each request    *)
(* reads config/product_catalog.json in one step and rewrites it in a      *)
(* later one; the steps of different requests interleave.                  *)
(***************************************************************************)
MaxRequests == 2

P_Sofa     == <<"S", "o", "f", "a">>
P_Chair    == <<"C", "h", "a", "i", "r">>
P_chair_sp == <<"c", "h", "a", "i", "r", " ">>
P_Table    == <<"T", "a", "b", "l", "e">>
H_9403     == <<"9", "4", "0", "3">>

\* data['name'] and data['hsn_code'] of a request
ProductNames == {P_Chair, P_chair_sp, P_Table, S_Blank}
HsnCodes     == {H_9403, <<>>}

\* the catalog file before the requests
Catalogs == {<<>>, <<[id |-> 1, name |-> P_Sofa, hsn_code |-> H_9403]>>}

\* max([p['id'] for p in products], default=0)
MaxId(products) ==
    LET ids == {products[i].id : i \in DOMAIN products}
    IN  IF ids = {} THEN 0 ELSE CHOOSE m \in ids : \A n \in ids : n <= m

\* new_name.lower() in [p['name'].lower() for p in products]
NameExists(new_name, products) ==
    \E i \in DOMAIN products : lower(products[i].name) = lower(new_name)

InitCatalog ==
    /\ product_catalog \in Catalogs
    /\ requests \in [1..MaxRequests ->
                       {[pc |-> "received", name |-> n, hsn_code |-> h,
                         catalog |-> <<>>, response |-> NoResponse]
                          : n \in ProductNames, h \in HsnCodes}]
    /\ TaxIdle /\ NormIdle /\ WordsIdle /\ InvoiceIdle

\* add_product up to the new product appended to the catalog it has read:
\* validation, json.load of the file, duplicate check, new id
ReadCatalog(r) ==
    LET data     == requests[r]
        new_name == strip(data.name)
        products == product_catalog
        new_product == [id |-> MaxId(products) + 1, name |-> new_name,
                        hsn_code |-> strip(data.hsn_code)]
    IN  /\ data.pc = "received"
        /\ requests' = [requests EXCEPT ![r] =
              IF strip(data.name) = <<>> \/ strip(data.hsn_code) = <<>>
              THEN [data EXCEPT !.pc = "done", !.response = [status |-> 400]]
              ELSE IF NameExists(new_name, products)
              THEN [data EXCEPT !.pc = "done", !.response = [status |-> 409]]
              ELSE [data EXCEPT !.pc = "loaded",
                                !.catalog = Append(products, new_product)]]
        /\ UNCHANGED <<product_catalog, taxVars, normVars, wordsVars, invoiceVars>>

\* add_product from json.dump of the whole catalog to the 201 response
WriteCatalog(r) ==
    LET data == requests[r]
    IN  /\ data.pc = "loaded"
        /\ product_catalog' = data.catalog
        /\ requests' = [requests EXCEPT ![r] =
              [data EXCEPT !.pc = "done",
                           !.response = [status |-> 201,
                                         product |-> data.catalog[Len(data.catalog)]]]]
        /\ UNCHANGED <<taxVars, normVars, wordsVars, invoiceVars>>

NextCatalog == \E r \in 1..MaxRequests : ReadCatalog(r) \/ WriteCatalog(r)

SpecCatalog == InitCatalog /\ [][NextCatalog]_vars

(***************************************************************************)
(* Properties of the catalog (SpecCatalog)                                 *)
(***************************************************************************)
AllFinished == \A r \in DOMAIN requests : requests[r].pc = "done"

Saved(r) == requests[r].response.status = 201

\* C16: once all requests have finished, every product answered with 201 is
\* in the catalog, and no two 201 responses carry the same id
C16_SavedProductsKept ==
    AllFinished
        => /\ \A r \in DOMAIN requests :
                Saved(r) => \E i \in DOMAIN product_catalog :
                                product_catalog[i] = requests[r].response.product
           /\ \A r1, r2 \in DOMAIN requests :
                (r1 # r2 /\ Saved(r1) /\ Saved(r2))
                    => requests[r1].response.product.id # requests[r2].response.product.id

====
